---- MODULE Spec2Model ----
(***************************************************************************)
(* Model of the TVB -> NEST transformer driver                             *)
(* (cosim_example_demos/TVB-NEST-demo/old_demo_files/tvb_to_nest.py).      *)
(* One run of the driver is launched on `size` MPI ranks; every rank       *)
(* executes the main program.  NEST publishes the handshake table          *)
(* nest/spike_generator.txt and then its marker spike_generator.txt.unlock.*)
(* The stages (ConsumerTVBData, TransformationRateSpike, ProducerDataNest) *)
(* and the two internal communications (MPICommunication,                  *)
(* ThreadCommunication) live in the nest_elephant_tvb package; their       *)
(* behaviour is taken from the design description.                         *)
(***************************************************************************)
EXTENDS Integers, Sequences, FiniteSets, TLC

\* ---------------------------------------------------------------- bounds
MaxSize == 3        \* largest number of MPI ranks a run is launched with
MaxIntervals == 2   \* largest number of synchronization intervals TVB sends
ChanCap == 1        \* messages an MPI link may hold before a send blocks
MaxLen == 3         \* largest configured simulation_length, in time units
MaxNStep == 2       \* largest configured synchronization_n_step

Ranks == 0..(MaxSize - 1)

\* ------------------------------------------------------- program constants
id_transformer == 0
RequiredArgc == 2
MPISize == 3
ThreadSize == 1
OwnerRank == 1

\* the three stage objects of the driver
Consumer == "receive_data_to_TVB"
Transformer == "transform_rate_to_spike"
Producer == "send_data_to_Nest"
Stages == {Consumer, Transformer, Producer}

\* ------------------------------------------------------------ numpy arrays
\* an array is its shape and its elements in row-major order
ErrArray == [shape |-> <<-1>>, flat |-> <<>>]
IsErr(a) == a.shape = <<-1>>
ndim(a) == Len(a.shape)

RECURSIVE Prod(_)
Prod(s) == IF s = <<>> THEN 1 ELSE Head(s) * Prod(Tail(s))

RECURSIVE Flatten(_)
Flatten(rows) == IF rows = <<>> THEN <<>> ELSE Head(rows) \o Flatten(Tail(rows))

\* np.loadtxt(file, dtype=int): rows of the file, axes of length one squeezed
loadtxt(rows) ==
    LET nr == Len(rows)
        nc == IF nr = 0 THEN 0 ELSE Len(rows[1])
    IN  IF nr = 0 THEN [shape |-> <<0>>, flat |-> <<>>]
        ELSE IF nr = 1 /\ nc = 1 THEN [shape |-> <<>>, flat |-> Flatten(rows)]
        ELSE IF nr = 1 THEN [shape |-> <<nc>>, flat |-> Flatten(rows)]
        ELSE IF nc = 1 THEN [shape |-> <<nr>>, flat |-> Flatten(rows)]
        ELSE [shape |-> <<nr, nc>>, flat |-> Flatten(rows)]

\* np.expand_dims(a, 0)
expand_dims(a) == [shape |-> <<1>> \o a.shape, flat |-> a.flat]

\* a[i]; indexing a scalar or past the first axis raises IndexError
Index(a, i) ==
    IF IsErr(a) \/ a.shape = <<>> THEN ErrArray
    ELSE IF i < 0 \/ i >= a.shape[1] THEN ErrArray
    ELSE LET stride == Prod(Tail(a.shape))
         IN  [shape |-> Tail(a.shape),
              flat |-> SubSeq(a.flat, i * stride + 1, (i + 1) * stride)]

\* len(a); -1 stands for the TypeError of len() of a scalar
len(a) == IF IsErr(a) \/ a.shape = <<>> THEN -1 ELSE a.shape[1]

\* lines 41-46: a table with fewer than two dimensions gets a leading axis
Normalize(a) == IF ndim(a) < 2 THEN expand_dims(a) ELSE a

\* line 50: spike_generator[id_transformer][0]
FirstSpikeDetector(sg) == Index(Index(sg, id_transformer), 0)

\* line 51: len(spike_generator[id_transformer])
NbSumSecondColumn(sg) ==
    IF ndim(sg) = 2 /\ sg.shape[2] >= 2
    THEN LET RECURSIVE S(_)
             S(i) == IF i = 0 THEN 0 ELSE sg.flat[(i - 1) * sg.shape[2] + 2] + S(i - 1)
         IN  S(sg.shape[1])
    ELSE len(Index(sg, id_transformer))
NbSpikeGenerator(sg) == len(Index(sg, id_transformer))

\* lines 60-65 / 116-121: the channel ids id_first + i, i in range(nb)
PathIds(first, nb) == [i \in 1..nb |-> first + (i - 1)]
\* lines 116-121: the same list as built on the thread path
ThreadPathIdsFromZero(first, nb) == [i \in 1..nb |-> i - 1]
ThreadPathIds(first, nb) == [i \in 1..nb |-> first + (i - 1)]

\* contents of nest/spike_generator.txt a run may find
FileTables == { << <<5>> >>,
                << <<5, 6, 7>> >>,
                << <<5, 2>>, <<7, 3>> >> }
ScenarioATable == << <<5, 2>>, <<7, 3>> >>


\* ------------------------------------------------------------------ state
VARIABLES
    size,                     \* MPI.COMM_WORLD.Get_size()
    argc,                     \* len(sys.argv)
    table,                    \* rows NEST writes to nest/spike_generator.txt
    nIntervals,               \* synchronization intervals TVB sends before its end
    nest,                     \* progress of NEST publishing the table
    marker,                   \* nest/spike_generator.txt.unlock exists
    pc,                       \* position of every rank in the main program
    first,                    \* outcome of a rank's first check for the marker
    seen,                     \* the rank's last check found the marker
    slept,                    \* the rank has slept in the poll loop
    loaded,                   \* state of the data file when the rank read it
    spike_generator,          \* the table as the rank holds it
    id_first_spike_detector,
    nb_spike_generator,
    path_to_files_sends,
    path_to_files_receive,
    id_proxy,                 \* parameters['id_nest_region'] once parameter.json is read
    inst,                     \* stage objects a rank has instantiated
    removed,                  \* number of times the marker was removed
    st,                       \* position of every stage in its run()
    hold,                     \* the item a stage is about to send
    sent,                     \* intervals the Consumer has taken from TVB
    received,                 \* items the Producer has written to NEST
    chan,                     \* MPI messages in flight, per (source, dest)
    status,                   \* status flag of a stage's write buffer
    data,                     \* content of a stage's write buffer
    lock,                     \* holder of the lock of a stage's write buffer
    \* backend.py
    bpc,                      \* position in backend() / run_cosimulation()
    args,                     \* what backend() is called with and how TVB behaves
    tvb_app,                  \* the TVB app and its cosimulator's attributes
    nest_app,                 \* the NEST app's attributes
    cosim,                    \* locals of run_cosimulation
    sync,                     \* locals of run_for_synchronization_time
    hist                      \* record of what has been called so far

driverVars == <<pc, first, seen, slept, loaded, spike_generator,
                id_first_spike_detector, nb_spike_generator,
                path_to_files_sends, path_to_files_receive, id_proxy, inst>>
inputVars == <<size, argc, table, nIntervals>>
envVars == <<nest, marker, removed>>
stageVars == <<st, hold, sent, received>>
mpiVars == <<chan>>
threadVars == <<status, data, lock>>
backendVars == <<bpc, args, tvb_app, nest_app, cosim, sync, hist>>
transformerVars == <<inputVars, envVars, driverVars, stageVars, mpiVars, threadVars>>
vars == <<inputVars, envVars, driverVars, stageVars, mpiVars, threadVars, backendVars>>

Argcs == {1, 2, 3}
Links == Ranks \X Ranks

\* items moving through the pipeline
NoItem == [kind |-> "none", id |-> 0]
End == [kind |-> "end", id |-> 0]
Rate(k) == [kind |-> "rate", id |-> k]
Transform(m) == [kind |-> "spike", id |-> m.id]

\* the data file as a reader finds it
dataFile == CASE nest = "init" -> "absent"
              [] nest = "deleted" -> "absent"
              [] nest = "writing" -> "partial"
              [] OTHER -> "complete"
FileRows == IF dataFile = "complete" THEN table
            ELSE SubSeq(table, 1, Len(table) - 1)

\* line 36: the file whose existence ends the poll loop
PollTargetData == "spike_generator.txt"
PollTarget == "spike_generator.txt.unlock"
Exists(f) == IF f = "spike_generator.txt.unlock" THEN marker
             ELSE dataFile # "absent"

\* lines 54, 67, 75: the stage a rank runs under MPI internal communication
StageOfRank(r) == CASE r = 0 -> Producer
                    [] r = 1 -> Consumer
                    [] OTHER -> Transformer
RankOfStage(s) == CHOOSE r \in 0..2 : StageOfRank(r) = s

\* lines 70, 80: the peers named by the driver
ConsumerReceiverRankProducer == RankOfStage(Producer)
ConsumerReceiverRank == 2
TransformerSenderRank == 1
\* peers fixed inside the stages
TransformerReceiverRank == 0
ProducerSenderRank == 2

\* lines 92, 101: a write buffer starts writable
buffer_write_status == "Empty"

\* lines 103-105: the Transformer reads the Consumer's write buffer
TransformerBufferRead == Consumer
TransformerStatusReadOwn == Transformer
TransformerStatusRead == Consumer
TransformerLockRead == Consumer
\* lines 112-114: the Producer reads the Transformer's write buffer
ProducerBufferReadConsumer == Consumer
ProducerBufferRead == Transformer
ProducerStatusReadConsumer == Consumer
ProducerStatusRead == Transformer
ProducerLockReadConsumer == Consumer
ProducerLockRead == Transformer
buffer_read(s) == IF s = Transformer THEN TransformerBufferRead ELSE ProducerBufferRead
status_read(s) == IF s = Transformer THEN TransformerStatusRead ELSE ProducerStatusRead
lock_read(s) == IF s = Transformer THEN TransformerLockRead ELSE ProducerLockRead

\* cosimulation updates handed between the apps
None == [src |-> "None", k |-> 0, via |-> "-"]
TvbOut(k) == [src |-> "tvb", k |-> k, via |-> "-"]
NestOut(k) == [src |-> "nest", k |-> k, via |-> "-"]
Through(app, u) == [u EXCEPT !.via = app]

\* backend() has not been called
BackendIdle ==
    /\ bpc = "idle"
    /\ args = [advance |-> FALSE, exact |-> TRUE, n_step |-> 1, nest_time |-> 0]
    /\ tvb_app = [simulation_length |-> 0, synchronization_time |-> 0,
                  synchronization_n_step |-> 0, dt |-> 1,
                  n_tvb_steps_ran_since_last_synch |-> 0,
                  tvb_init_cosim_coupling |-> None, input |-> None]
    /\ nest_app = [synchronization_time |-> 0, input |-> None]
    /\ cosim = [simulation_length |-> 0, synchronization_time |-> 0,
                synchronization_n_step |-> 0, dt |-> 1,
                remaining_steps |-> 0, simulated_steps |-> 0,
                tvb_to_trans_cosim_updates |-> None,
                nest_to_trans_cosim_updates |-> None]
    /\ sync = [trans_to_nest_cosim_updates |-> None,
               trans_to_tvb_cosim_updates |-> None,
               tvb_to_trans_cosim_updates |-> None]
    /\ hist = [total_steps |-> 0, iters |-> 0, calls |-> <<>>, events |-> <<>>]

Init ==
    /\ BackendIdle
    /\ size \in 1..MaxSize
    /\ argc \in Argcs
    /\ table \in FileTables
    /\ nIntervals \in 0..MaxIntervals
    /\ nest = "init"
    /\ marker = FALSE
    /\ pc = [r \in Ranks |-> IF r < size THEN "start" ELSE "off"]
    /\ first = [r \in Ranks |-> "unchecked"]
    /\ seen = [r \in Ranks |-> FALSE]
    /\ slept = [r \in Ranks |-> FALSE]
    /\ loaded = [r \in Ranks |-> "none"]
    /\ spike_generator = [r \in Ranks |-> ErrArray]
    /\ id_first_spike_detector = [r \in Ranks |-> -1]
    /\ nb_spike_generator = [r \in Ranks |-> -1]
    /\ path_to_files_sends = [r \in Ranks |-> <<>>]
    /\ path_to_files_receive = [r \in Ranks |-> <<>>]
    /\ id_proxy = [r \in Ranks |-> <<>>]
    /\ inst = [r \in Ranks |-> {}]
    /\ removed = 0
    /\ st = [s \in Stages |-> "none"]
    /\ hold = [s \in Stages |-> NoItem]
    /\ sent = 0
    /\ received = <<>>
    /\ chan = [l \in Links |-> <<>>]
    /\ status = [s \in Stages |-> buffer_write_status]
    /\ data = [s \in Stages |-> NoItem]
    /\ lock = [s \in Stages |-> "free"]

\* ------------------------------------------------------------ NEST (publisher)
NestStartWrite ==
    /\ nest = "init"
    /\ nest' = "writing"
    /\ UNCHANGED <<marker, removed, backendVars, inputVars, driverVars, stageVars, mpiVars, threadVars>>

NestFinishWrite ==
    /\ nest = "writing"
    /\ nest' = "written"
    /\ UNCHANGED <<marker, removed, backendVars, inputVars, driverVars, stageVars, mpiVars, threadVars>>

NestUnlock ==
    /\ nest = "written"
    /\ nest' = "unlocked"
    /\ marker' = TRUE
    /\ UNCHANGED <<removed, backendVars, inputVars, driverVars, stageVars, mpiVars, threadVars>>

\* lines 135-137 as executed by the owner rank of another instance of the
\* driver started on the same run path (every instance has id_transformer 0)
OtherInstanceCleanup ==
    /\ marker
    /\ marker' = FALSE
    /\ UNCHANGED <<nest, removed, backendVars, inputVars, driverVars, stageVars, mpiVars, threadVars>>

\* ------------------------------------------------------------ the main program
\* line 19: the test for a missing argument
MissingArgumentFewer(n) == n < RequiredArgc
MissingArgument(n) == n # RequiredArgc

\* line 32: the region ids of parameter.json, one per transformer instance
id_nest_region == <<26, 78>>

\* lines 72-73 / 95: the file of the region of this transformer instance
ReceivePath(idp) == <<idp[id_transformer + 1]>>

\* lines 19-34
CheckArgs(r) ==
    /\ pc[r] = "start"
    /\ IF MissingArgument(argc)
       THEN /\ pc' = [pc EXCEPT ![r] = "exit1"]
            /\ UNCHANGED id_proxy
       ELSE /\ pc' = [pc EXCEPT ![r] = "poll"]
            /\ id_proxy' = [id_proxy EXCEPT ![r] = id_nest_region]
    /\ UNCHANGED <<first, seen, slept, loaded, spike_generator,
                   id_first_spike_detector, nb_spike_generator,
                   path_to_files_sends, path_to_files_receive, inst>>
    /\ UNCHANGED <<backendVars, inputVars, envVars, stageVars, mpiVars, threadVars>>

\* line 36: the loop condition
PollMarker(r) ==
    /\ pc[r] = "poll"
    /\ pc' = [pc EXCEPT ![r] = IF Exists(PollTarget) THEN "load" ELSE "sleep"]
    /\ seen' = [seen EXCEPT ![r] = marker]
    /\ first' = [first EXCEPT ![r] =
                    IF first[r] # "unchecked" THEN first[r]
                    ELSE IF marker THEN "present" ELSE "absent"]
    /\ UNCHANGED <<slept, loaded, spike_generator,
                   id_first_spike_detector, nb_spike_generator,
                   path_to_files_sends, path_to_files_receive, id_proxy, inst>>
    /\ UNCHANGED <<backendVars, inputVars, envVars, stageVars, mpiVars, threadVars>>

\* lines 37-38
Sleep(r) ==
    /\ pc[r] = "sleep"
    /\ pc' = [pc EXCEPT ![r] = "poll"]
    /\ slept' = [slept EXCEPT ![r] = TRUE]
    /\ UNCHANGED <<first, seen, loaded, spike_generator,
                   id_first_spike_detector, nb_spike_generator,
                   path_to_files_sends, path_to_files_receive, id_proxy, inst>>
    /\ UNCHANGED <<backendVars, inputVars, envVars, stageVars, mpiVars, threadVars>>

\* line 39
LoadTable(r) ==
    /\ pc[r] = "load"
    /\ loaded' = [loaded EXCEPT ![r] = dataFile]
    /\ spike_generator' = [spike_generator EXCEPT ![r] = loadtxt(FileRows)]
    /\ pc' = [pc EXCEPT ![r] = "normalize"]
    /\ UNCHANGED <<first, seen, slept,
                   id_first_spike_detector, nb_spike_generator,
                   path_to_files_sends, path_to_files_receive, id_proxy, inst>>
    /\ UNCHANGED <<backendVars, inputVars, envVars, stageVars, mpiVars, threadVars>>

\* lines 41-51
ReadIds(r) ==
    /\ pc[r] = "normalize"
    /\ LET sg == Normalize(spike_generator[r])
           f == FirstSpikeDetector(sg)
       IN  /\ spike_generator' = [spike_generator EXCEPT ![r] = sg]
           /\ IF IsErr(f)
              THEN /\ pc' = [pc EXCEPT ![r] = "IndexError"]
                   /\ UNCHANGED <<id_first_spike_detector, nb_spike_generator>>
              ELSE /\ pc' = [pc EXCEPT ![r] = "dispatch"]
                   /\ id_first_spike_detector' =
                          [id_first_spike_detector EXCEPT ![r] = f.flat[1]]
                   /\ nb_spike_generator' =
                          [nb_spike_generator EXCEPT ![r] = NbSpikeGenerator(sg)]
    /\ UNCHANGED <<first, seen, slept, loaded, path_to_files_sends, path_to_files_receive, id_proxy, inst>>
    /\ UNCHANGED <<backendVars, inputVars, envVars, stageVars, mpiVars, threadVars>>

\* line 53 and line 84: the internal communication chosen from the rank count
UseMPI(n) == n = MPISize
UseThreadsOtherwise(n) == n # MPISize
UseThreads(n) == n = ThreadSize

\* the first position of a stage's run()
ConsumerNext(k) == IF k < nIntervals THEN "send" ELSE "send_end"
RunEntry(s) == IF s = Consumer THEN ConsumerNext(0) ELSE "recv"

\* lines 53-83: MPI internal communication, one stage per rank
DispatchMPI(r) ==
    /\ pc[r] = "dispatch"
    /\ UseMPI(size)
    /\ IF r \in 0..2
       THEN /\ pc' = [pc EXCEPT ![r] = "run"]
            /\ inst' = [inst EXCEPT ![r] = {StageOfRank(r)}]
            /\ st' = [st EXCEPT ![StageOfRank(r)] = RunEntry(StageOfRank(r))]
            /\ path_to_files_sends' =
                  [path_to_files_sends EXCEPT ![r] =
                      IF StageOfRank(r) = Producer
                      THEN PathIds(id_first_spike_detector[r], nb_spike_generator[r])
                      ELSE <<>>]
            /\ path_to_files_receive' =
                  [path_to_files_receive EXCEPT ![r] =
                      IF StageOfRank(r) = Consumer
                      THEN ReceivePath(id_proxy[r])
                      ELSE <<>>]
       ELSE /\ pc' = [pc EXCEPT ![r] = "TooMuchRank"]
            /\ UNCHANGED <<inst, st, path_to_files_sends, path_to_files_receive>>
    /\ UNCHANGED <<first, seen, slept, loaded, spike_generator,
                   id_first_spike_detector, nb_spike_generator, id_proxy>>
    /\ UNCHANGED <<backendVars, inputVars, envVars, hold, sent, received, mpiVars, threadVars>>

\* run() of the rank's stage has returned
ReturnMPI(r) ==
    /\ pc[r] = "run"
    /\ st[StageOfRank(r)] = "finished"
    /\ pc' = [pc EXCEPT ![r] = "cleanup"]
    /\ UNCHANGED <<first, seen, slept, loaded, spike_generator,
                   id_first_spike_detector, nb_spike_generator,
                   path_to_files_sends, path_to_files_receive, id_proxy, inst>>
    /\ UNCHANGED <<backendVars, inputVars, envVars, stageVars, mpiVars, threadVars>>

\* lines 84-126: thread internal communication, the three stages in one rank
BuildThreads(r) ==
    /\ pc[r] = "dispatch"
    /\ ~UseMPI(size)
    /\ UseThreads(size)
    /\ pc' = [pc EXCEPT ![r] = "start_receive"]
    /\ inst' = [inst EXCEPT ![r] = Stages]
    /\ st' = [s \in Stages |-> "built"]
    /\ path_to_files_sends' =
          [path_to_files_sends EXCEPT ![r] =
              ThreadPathIds(id_first_spike_detector[r], nb_spike_generator[r])]
    /\ path_to_files_receive' =
          [path_to_files_receive EXCEPT ![r] = ReceivePath(id_proxy[r])]
    /\ UNCHANGED <<first, seen, slept, loaded, spike_generator,
                   id_first_spike_detector, nb_spike_generator, id_proxy>>
    /\ UNCHANGED <<backendVars, inputVars, envVars, hold, sent, received, mpiVars, threadVars>>

\* lines 127-129
StartThread(r, at, s, next) ==
    /\ pc[r] = at
    /\ pc' = [pc EXCEPT ![r] = next]
    /\ st' = [st EXCEPT ![s] = RunEntry(s)]
    /\ UNCHANGED <<first, seen, slept, loaded, spike_generator,
                   id_first_spike_detector, nb_spike_generator,
                   path_to_files_sends, path_to_files_receive, id_proxy, inst>>
    /\ UNCHANGED <<backendVars, inputVars, envVars, hold, sent, received, mpiVars, threadVars>>

StartReceive(r) == StartThread(r, "start_receive", Consumer, "start_transformation")
StartTransformation(r) == StartThread(r, "start_transformation", Transformer, "start_send")
StartSend(r) == StartThread(r, "start_send", Producer, "join_transformation")

\* lines 130-132
JoinThread(r, at, s, next) ==
    /\ pc[r] = at
    /\ st[s] = "finished"
    /\ pc' = [pc EXCEPT ![r] = next]
    /\ UNCHANGED <<first, seen, slept, loaded, spike_generator,
                   id_first_spike_detector, nb_spike_generator,
                   path_to_files_sends, path_to_files_receive, id_proxy, inst>>
    /\ UNCHANGED <<backendVars, inputVars, envVars, stageVars, mpiVars, threadVars>>

JoinTransformation(r) == JoinThread(r, "join_transformation", Transformer, "join_receive")
JoinReceive(r) == JoinThread(r, "join_receive", Consumer, "join_send")
JoinSend(r) == JoinThread(r, "join_send", Producer, "cleanup")

\* lines 133-134
BadNumberOfRank(r) ==
    /\ pc[r] = "dispatch"
    /\ ~UseMPI(size)
    /\ ~UseThreads(size)
    /\ pc' = [pc EXCEPT ![r] = "BadNumberOfRank"]
    /\ UNCHANGED <<first, seen, slept, loaded, spike_generator,
                   id_first_spike_detector, nb_spike_generator,
                   path_to_files_sends, path_to_files_receive, id_proxy, inst>>
    /\ UNCHANGED <<backendVars, inputVars, envVars, stageVars, mpiVars, threadVars>>

\* line 136: the rank that removes the marker
IsOwner(r) == id_transformer = 0 /\ r = OwnerRank

\* line 137: the file os.remove is given, and what os.remove does to it
RemoveTargetData == "spike_generator.txt"
RemoveTarget == "spike_generator.txt.unlock"
Remove(f) ==
    IF f = "spike_generator.txt.unlock"
    THEN /\ marker' = FALSE
         /\ removed' = removed + 1
         /\ UNCHANGED nest
    ELSE /\ nest' = "deleted"
         /\ UNCHANGED <<marker, removed>>

\* lines 135-137
Cleanup(r) ==
    /\ pc[r] = "cleanup"
    /\ IF IsOwner(r)
       THEN IF Exists(RemoveTarget)
            THEN /\ Remove(RemoveTarget)
                 /\ pc' = [pc EXCEPT ![r] = "done"]
            ELSE /\ pc' = [pc EXCEPT ![r] = "FileNotFoundError"]
                 /\ UNCHANGED <<nest, marker, removed>>
       ELSE /\ pc' = [pc EXCEPT ![r] = "done"]
            /\ UNCHANGED <<nest, marker, removed>>
    /\ UNCHANGED <<first, seen, slept, loaded, spike_generator,
                   id_first_spike_detector, nb_spike_generator,
                   path_to_files_sends, path_to_files_receive, id_proxy, inst>>
    /\ UNCHANGED <<backendVars, inputVars, stageVars, mpiVars, threadVars>>


\* ------------------------------------------------------------ the stages
\* what a stage sends next, and where it stands once the item is sent
Payload(s) == IF s = Consumer THEN Rate(sent + 1) ELSE hold[s]
AfterSend(s) == IF s = Consumer THEN ConsumerNext(sent + 1) ELSE "recv"

\* a stage has taken item m from its upstream side
Took(s, m) ==
    IF s = Transformer
    THEN /\ hold' = [hold EXCEPT ![s] = Transform(m)]
         /\ st' = [st EXCEPT ![s] = "send"]
         /\ UNCHANGED received
    ELSE /\ received' = Append(received, m)
         /\ st' = [st EXCEPT ![s] = "recv"]
         /\ UNCHANGED hold

\* a stage has been told that the stream has ended
TookEnd(s) ==
    /\ st' = [st EXCEPT ![s] = IF s = Transformer THEN "send_end" ELSE "finished"]
    /\ UNCHANGED <<hold, received>>

\* MPI internal communication: the ranks a stage sends to and receives from
Dest(s) == IF s = Consumer THEN ConsumerReceiverRank ELSE TransformerReceiverRank
Source(s) == IF s = Transformer THEN TransformerSenderRank ELSE ProducerSenderRank

MPISend(s) ==
    /\ size = MPISize
    /\ st[s] = "send"
    /\ LET l == <<RankOfStage(s), Dest(s)>>
       IN  /\ Len(chan[l]) < ChanCap
           /\ chan' = [chan EXCEPT ![l] = Append(@, Payload(s))]
    /\ st' = [st EXCEPT ![s] = AfterSend(s)]
    /\ sent' = IF s = Consumer THEN sent + 1 ELSE sent
    /\ UNCHANGED <<hold, received>>
    /\ UNCHANGED <<backendVars, inputVars, envVars, driverVars, threadVars>>

MPISendEnd(s) ==
    /\ size = MPISize
    /\ st[s] = "send_end"
    /\ LET l == <<RankOfStage(s), Dest(s)>>
       IN  /\ Len(chan[l]) < ChanCap
           /\ chan' = [chan EXCEPT ![l] = Append(@, End)]
    /\ st' = [st EXCEPT ![s] = "finished"]
    /\ UNCHANGED <<hold, sent, received>>
    /\ UNCHANGED <<backendVars, inputVars, envVars, driverVars, threadVars>>

MPIRecv(s) ==
    /\ size = MPISize
    /\ st[s] = "recv"
    /\ LET l == <<Source(s), RankOfStage(s)>>
       IN  /\ chan[l] # <<>>
           /\ chan' = [chan EXCEPT ![l] = Tail(@)]
           /\ IF Head(chan[l]).kind = "end"
              THEN TookEnd(s)
              ELSE Took(s, Head(chan[l]))
    /\ UNCHANGED sent
    /\ UNCHANGED <<backendVars, inputVars, envVars, driverVars, threadVars>>

\* thread internal communication: one slot per writing stage
ThreadSendBegin(s) ==
    /\ size = ThreadSize
    /\ st[s] = "send"
    /\ lock[s] = "free"
    /\ status[s] = "Empty"
    /\ lock' = [lock EXCEPT ![s] = s]
    /\ status' = [status EXCEPT ![s] = "Filling"]
    /\ st' = [st EXCEPT ![s] = "write"]
    /\ UNCHANGED <<hold, sent, received, data>>
    /\ UNCHANGED <<backendVars, inputVars, envVars, driverVars, mpiVars>>

ThreadSendWrite(s) ==
    /\ size = ThreadSize
    /\ st[s] = "write"
    /\ data' = [data EXCEPT ![s] = Payload(s)]
    /\ status' = [status EXCEPT ![s] = "Ready"]
    /\ lock' = [lock EXCEPT ![s] = "free"]
    /\ st' = [st EXCEPT ![s] = AfterSend(s)]
    /\ sent' = IF s = Consumer THEN sent + 1 ELSE sent
    /\ UNCHANGED <<hold, received>>
    /\ UNCHANGED <<backendVars, inputVars, envVars, driverVars, mpiVars>>

ThreadSendEnd(s) ==
    /\ size = ThreadSize
    /\ st[s] = "send_end"
    /\ lock[s] = "free"
    /\ status[s] = "Empty"
    /\ status' = [status EXCEPT ![s] = "EndOfStream"]
    /\ st' = [st EXCEPT ![s] = "finished"]
    /\ UNCHANGED <<hold, sent, received, data, lock>>
    /\ UNCHANGED <<backendVars, inputVars, envVars, driverVars, mpiVars>>

ThreadRecvBegin(s) ==
    /\ size = ThreadSize
    /\ st[s] = "recv"
    /\ lock[lock_read(s)] = "free"
    /\ status[status_read(s)] = "Ready"
    /\ lock' = [lock EXCEPT ![lock_read(s)] = s]
    /\ status' = [status EXCEPT ![status_read(s)] = "Reading"]
    /\ st' = [st EXCEPT ![s] = "copy"]
    /\ UNCHANGED <<hold, sent, received, data>>
    /\ UNCHANGED <<backendVars, inputVars, envVars, driverVars, mpiVars>>

ThreadRecvCopy(s) ==
    /\ size = ThreadSize
    /\ st[s] = "copy"
    /\ Took(s, data[buffer_read(s)])
    /\ status' = [status EXCEPT ![status_read(s)] = "Empty"]
    /\ lock' = [lock EXCEPT ![lock_read(s)] = "free"]
    /\ UNCHANGED <<sent, data>>
    /\ UNCHANGED <<backendVars, inputVars, envVars, driverVars, mpiVars>>

ThreadRecvEnd(s) ==
    /\ size = ThreadSize
    /\ st[s] = "recv"
    /\ lock[lock_read(s)] = "free"
    /\ status[status_read(s)] = "EndOfStream"
    /\ TookEnd(s)
    /\ UNCHANGED <<sent, data, status, lock>>
    /\ UNCHANGED <<backendVars, inputVars, envVars, driverVars, mpiVars>>

\* ------------------------------------------------------------ specification
RankStep(r) ==
    \/ CheckArgs(r)
    \/ PollMarker(r)
    \/ Sleep(r)
    \/ LoadTable(r)
    \/ ReadIds(r)
    \/ DispatchMPI(r)
    \/ ReturnMPI(r)
    \/ BuildThreads(r)
    \/ StartReceive(r)
    \/ StartTransformation(r)
    \/ StartSend(r)
    \/ JoinTransformation(r)
    \/ JoinReceive(r)
    \/ JoinSend(r)
    \/ BadNumberOfRank(r)
    \/ Cleanup(r)

StageStep(s) ==
    \/ MPISend(s)
    \/ MPISendEnd(s)
    \/ MPIRecv(s)
    \/ ThreadSendBegin(s)
    \/ ThreadSendWrite(s)
    \/ ThreadSendEnd(s)
    \/ ThreadRecvBegin(s)
    \/ ThreadRecvCopy(s)
    \/ ThreadRecvEnd(s)

NestStep == NestStartWrite \/ NestFinishWrite \/ NestUnlock

Next ==
    \/ \E r \in Ranks : RankStep(r)
    \/ \E s \in Stages : StageStep(s)
    \/ NestStep
    \/ OtherInstanceCleanup

Spec == Init /\ [][Next]_vars

\* every rank and every thread keeps being scheduled; NEST owes nothing
FairSpec ==
    /\ Spec
    /\ \A r \in Ranks : WF_vars(RankStep(r))
    /\ \A s \in Stages : WF_vars(StageStep(s))


\* ------------------------------------------------------------ properties
Active == {r \in Ranks : r < size}
BeforeRead == {"off", "start", "exit1", "poll", "sleep", "load"}
BadCount == size # MPISize /\ size # ThreadSize
Expected == [k \in 1..nIntervals |-> Transform(Rate(k))]

\* C1: a rank reads nest/spike_generator.txt only after a check that found
\* the marker, and what it reads is the complete table; while it polls or
\* sleeps it has read nothing and built no stage; a rank whose first check
\* found the marker never slept.
C1_ReadOnlyAfterMarker ==
    \A r \in Ranks :
        /\ loaded[r] # "none" => seen[r] /\ loaded[r] = "complete"
        /\ pc[r] \in {"poll", "sleep"} => loaded[r] = "none" /\ inst[r] = {}
        /\ first[r] = "present" => ~slept[r]

C1_Witness ==
    \E r, q \in Ranks :
        /\ slept[r] /\ loaded[r] = "complete"
        /\ first[q] = "present" /\ loaded[q] = "complete"

C3_DoubleBuffer ==
    /\ \A w \in {Consumer, Transformer} :
          st[w] = "write" => status[w] \notin {"Ready", "Reading"}
    /\ \A rd \in {Transformer, Producer} :
          st[rd] = "copy" =>
              /\ status[buffer_read(rd)] \notin {"Empty", "Filling"}
              /\ st[buffer_read(rd)] # "write"

C3_Witness == st[Consumer] = "write" /\ st[Producer] = "copy"

\* C4: when every rank of a run has completed normally the marker has been
\* removed exactly once.
C4_RemovedOnceAtTeardown ==
    (\A r \in Ranks : pc[r] \in {"off", "done"}) => removed = 1

\* C5: the marker is removed only after every rank of the run has read the
\* data file.
C5_NoPrematureDeletion ==
    removed > 0 => \A r \in Active : loaded[r] # "none"

C7_ConfigErrorBeforePoll ==
    BadCount => \A r \in Ranks : pc[r] # "sleep"

\* C8 (as stated): with three ranks and the table [[5,2],[7,3]] the list of
\* channel files handed to the Producer has 5 entries.
C8_FiveChannelFiles ==
    (size = MPISize /\ table = ScenarioATable /\ pc[0] \in {"run", "cleanup", "done"})
        => Len(path_to_files_sends[0]) = 5

\* C8 (amended): with three ranks and the table [[5,2],[7,3]] the list of
\* channel files handed to the Producer is the files of channels 5 and 6:
\* one per element of row 0, numbered from its first element.
C8_TwoChannelFiles ==
    (size = MPISize /\ table = ScenarioATable /\ pc[0] \in {"run", "cleanup", "done"})
        => path_to_files_sends[0] = <<5, 6>>

C8_Witness ==
    /\ size = MPISize /\ table = ScenarioATable /\ nIntervals = 1
    /\ pc[0] = "done" /\ received = <<Transform(Rate(1))>>

\* C9: a rank that has read a table of fewer than two dimensions gets past
\* the indexing of lines 49-51, with the first element of the table as first
\* channel id and the number of its elements as channel count.
C9_LowDimTableIsOneRow ==
    \A r \in Ranks :
        (pc[r] \notin BeforeRead \cup {"normalize"} /\ ndim(loadtxt(table)) < 2) =>
            /\ pc[r] # "IndexError"
            /\ id_first_spike_detector[r] = Flatten(table)[1]
            /\ nb_spike_generator[r] = Len(Flatten(table))

\* C10: in a run of one rank whose input ends at t0, once the three stage
\* objects are built the three threads finish and the three joins return.
C10_ThreadsJoinOnEndOfStream ==
    (size = ThreadSize /\ nIntervals = 0 /\ pc[0] = "start_receive")
        ~> (pc[0] \in {"cleanup", "done"} /\ \A s \in Stages : st[s] = "finished")

C10_Witness ==
    /\ size = ThreadSize /\ nIntervals = 0
    /\ pc[0] = "cleanup"
    /\ \A s \in Stages : st[s] = "finished"
    /\ received = <<>>

\* C11: under MPI internal communication rank 0 instantiates the Producer
\* and nothing else, rank 1 the Consumer, rank 2 the Transformer; messages
\* travel only from rank 1 to rank 2 (what TVB produced) and from rank 2 to
\* rank 0 (what the Transformer made of it).
C11_RankRoles ==
    size = MPISize =>
        /\ inst[0] \subseteq {Producer}
        /\ inst[1] \subseteq {Consumer}
        /\ inst[2] \subseteq {Transformer}
        /\ \A r \in Ranks : pc[r] \in {"run", "cleanup", "done"} => inst[r] # {}
        /\ \A l \in Links : chan[l] # <<>> => l \in {<<1, 2>>, <<2, 0>>}
        /\ \A i \in 1..Len(chan[<<1, 2>>]) : chan[<<1, 2>>][i].kind \in {"rate", "end"}
        /\ \A i \in 1..Len(chan[<<2, 0>>]) : chan[<<2, 0>>][i].kind \in {"spike", "end"}

C11_Witness ==
    /\ size = MPISize
    /\ inst[0] = {Producer} /\ inst[1] = {Consumer} /\ inst[2] = {Transformer}
    /\ chan[<<1, 2>>] # <<>> /\ chan[<<2, 0>>] # <<>>
    /\ Head(chan[<<2, 0>>]).kind = "spike"

C14_SameOutputsInBothModes ==
    LET row == Index(Normalize(loadtxt(table)), 0)
    IN  /\ \A r \in Ranks :
              /\ Producer \in inst[r] =>
                    path_to_files_sends[r] = [i \in 1..len(row) |-> row.flat[1] + i - 1]
              /\ Consumer \in inst[r] => path_to_files_receive[r] = <<26>>
              /\ Producer \notin inst[r] => path_to_files_sends[r] = <<>>
              /\ Consumer \notin inst[r] => path_to_files_receive[r] = <<>>
        /\ st[Producer] = "finished" =>
              received = [k \in 1..nIntervals |-> [kind |-> "spike", id |-> k]]

C14_Witness ==
    /\ size = ThreadSize /\ st[Producer] = "finished"
    /\ nIntervals >= 1 /\ Len(received) = nIntervals
    /\ Len(path_to_files_sends[0]) >= 2 /\ path_to_files_receive[0] = <<26>>

\* C15: in a run started with an argument count other than 2 every rank
\* goes from the start to exit(1) and nowhere else: it reads no parameter
\* file, never checks for the marker, reads no table, builds no stage, and
\* the marker is not removed by the run.
C15_MissingArgumentExits ==
    argc # 2 =>
        /\ removed = 0
        /\ \A s \in Stages : st[s] = "none"
        /\ \A r \in Ranks :
              /\ pc[r] \in {"off", "start", "exit1"}
              /\ id_proxy[r] = <<>>
              /\ first[r] = "unchecked" /\ ~slept[r]
              /\ loaded[r] = "none"
              /\ inst[r] = {}

C15_Witness ==
    /\ argc = 3 /\ size = MPISize /\ marker
    /\ \A r \in Active : pc[r] = "exit1"

\* ================================================================ backend.py
\* integration steps dt a run may be configured with, in time units
Dts == {1, 2}
\* no run is followed beyond this many synchronization steps
MaxIters == MaxLen + MaxNStep + 1

\* the transformer has not been launched
TransformerIdle ==
    /\ size = ThreadSize /\ argc = RequiredArgc
    /\ table = ScenarioATable /\ nIntervals = 0
    /\ nest = "init" /\ marker = FALSE /\ removed = 0
    /\ pc = [r \in Ranks |-> "off"]
    /\ first = [r \in Ranks |-> "unchecked"]
    /\ seen = [r \in Ranks |-> FALSE]
    /\ slept = [r \in Ranks |-> FALSE]
    /\ loaded = [r \in Ranks |-> "none"]
    /\ spike_generator = [r \in Ranks |-> ErrArray]
    /\ id_first_spike_detector = [r \in Ranks |-> -1]
    /\ nb_spike_generator = [r \in Ranks |-> -1]
    /\ path_to_files_sends = [r \in Ranks |-> <<>>]
    /\ path_to_files_receive = [r \in Ranks |-> <<>>]
    /\ id_proxy = [r \in Ranks |-> <<>>]
    /\ inst = [r \in Ranks |-> {}]
    /\ st = [s \in Stages |-> "none"]
    /\ hold = [s \in Stages |-> NoItem]
    /\ sent = 0
    /\ received = <<>>
    /\ chan = [l \in Links |-> <<>>]
    /\ status = [s \in Stages |-> buffer_write_status]
    /\ data = [s \in Stages |-> NoItem]
    /\ lock = [s \in Stages |-> "free"]

\* line 76: int(np.round(a / d)), halves rounded to the even neighbour
RoundDiv(a, d) ==
    LET q == a \div d
        r == a % d
    IN  IF 2 * r < d THEN q
        ELSE IF 2 * r > d THEN q + 1
        ELSE IF q % 2 = 0 THEN q ELSE q + 1

\* line 90: np.minimum(remaining_steps, synchronization_n_step)
StepsToRunConfigured(rem, n) == n
StepsToRun(rem, n) == IF rem < n THEN rem ELSE n

\* line 93: the synchronization time NEST is given for the step
NestTimeConfigured(time_to_simulate, configured) == configured
NestTime(time_to_simulate, configured) == time_to_simulate

\* line 49: the updates TVB is run with
TvbInputFromTvb(to_tvb, to_nest) == to_nest
TvbInput(to_tvb, to_nest) == to_tvb

\* line 99: the steps left after a synchronization step
RemainingAfterRequested(rem, ran, requested) == rem - requested
RemainingAfter(rem, ran, requested) == rem - ran

\* lines 124-131 and 144-149: the order the apps are built and finalized in
InitOrder == <<"tvb", "nest", "tvb_to_nest", "nest_to_tvb">>
FinalOrderAsBuilt == InitOrder
FinalOrder == <<"nest_to_tvb", "tvb_to_nest", "nest", "tvb">>

Events(kind) == {i \in 1..Len(hist.events) : hist.events[i][1] = kind}

BackendInit ==
    /\ TransformerIdle
    /\ bpc = "init"
    /\ \E dt \in Dts, n \in 1..MaxNStep, sl \in 1..MaxLen, adv \in BOOLEAN,
          ex \in BOOLEAN, nt \in {0, 1}, c0 \in {None, TvbOut(0)} :
          /\ args = [advance |-> adv, exact |-> ex, n_step |-> n, nest_time |-> nt * n * dt]
          /\ tvb_app = [simulation_length |-> sl, synchronization_time |-> n * dt,
                        synchronization_n_step |-> n, dt |-> dt,
                        n_tvb_steps_ran_since_last_synch |-> 0,
                        tvb_init_cosim_coupling |-> c0, input |-> None]
          /\ nest_app = [synchronization_time |-> nt * n * dt, input |-> None]
    /\ cosim = [simulation_length |-> 0, synchronization_time |-> 0,
                synchronization_n_step |-> 0, dt |-> 1,
                remaining_steps |-> 0, simulated_steps |-> 0,
                tvb_to_trans_cosim_updates |-> None,
                nest_to_trans_cosim_updates |-> None]
    /\ sync = [trans_to_nest_cosim_updates |-> None,
               trans_to_tvb_cosim_updates |-> None,
               tvb_to_trans_cosim_updates |-> None]
    /\ hist = [total_steps |-> 0, iters |-> 0, calls |-> <<>>, events |-> <<>>]

\* lines 124-131
InitApp ==
    /\ bpc = "init"
    /\ LET k == Len(hist.events) + 1
       IN  /\ hist' = [hist EXCEPT !.events = Append(@, <<"init", InitOrder[k]>>)]
           /\ bpc' = IF k = Len(InitOrder) THEN "run_cosimulation" ELSE "init"
    /\ UNCHANGED <<args, tvb_app, nest_app, cosim, sync, transformerVars>>

\* lines 66-86
EnterCosimulation ==
    /\ bpc = "run_cosimulation"
    /\ LET length == IF args.advance
                     THEN tvb_app.simulation_length + tvb_app.synchronization_time
                     ELSE tvb_app.simulation_length
           steps == RoundDiv(length, tvb_app.dt)
       IN  /\ cosim' = [simulation_length |-> length,
                        synchronization_time |-> tvb_app.synchronization_time,
                        synchronization_n_step |-> tvb_app.synchronization_n_step,
                        dt |-> tvb_app.dt,
                        remaining_steps |-> steps,
                        simulated_steps |-> 0,
                        tvb_to_trans_cosim_updates |-> tvb_app.tvb_init_cosim_coupling,
                        nest_to_trans_cosim_updates |-> None]
           /\ hist' = [hist EXCEPT !.total_steps = steps,
                                   !.events = Append(@, <<"cosim", "start">>)]
    /\ bpc' = "loop_head"
    /\ UNCHANGED <<args, tvb_app, nest_app, sync, transformerVars>>

\* line 87, loop entered, and lines 90-93
SetSynchronization ==
    /\ bpc = "loop_head"
    /\ cosim.remaining_steps > 0
    /\ hist.iters < MaxIters
    /\ LET n == StepsToRun(cosim.remaining_steps, cosim.synchronization_n_step)
           time_to_simulate == cosim.dt * n
       IN  /\ tvb_app' = [tvb_app EXCEPT !.synchronization_n_step = n,
                                         !.synchronization_time = time_to_simulate]
           /\ nest_app' = [nest_app EXCEPT !.synchronization_time =
                              NestTime(time_to_simulate, cosim.synchronization_time)]
    /\ hist' = [hist EXCEPT !.iters = @ + 1, !.calls = <<>>]
    /\ bpc' = "transform_tvb_to_nest"
    /\ UNCHANGED <<args, cosim, sync, transformerVars>>

\* lines 33-37
TransformTvbToNest ==
    /\ bpc = "transform_tvb_to_nest"
    /\ IF cosim.tvb_to_trans_cosim_updates # None
       THEN /\ sync' = [sync EXCEPT !.trans_to_nest_cosim_updates =
                           Through("tvb_to_nest", cosim.tvb_to_trans_cosim_updates)]
            /\ hist' = [hist EXCEPT !.calls = Append(@, "tvb_to_nest")]
       ELSE /\ sync' = [sync EXCEPT !.trans_to_nest_cosim_updates = None]
            /\ UNCHANGED hist
    /\ bpc' = "transform_nest_to_tvb"
    /\ UNCHANGED <<args, tvb_app, nest_app, cosim, transformerVars>>

\* lines 39-43
TransformNestToTvb ==
    /\ bpc = "transform_nest_to_tvb"
    /\ IF cosim.nest_to_trans_cosim_updates # None
       THEN /\ sync' = [sync EXCEPT !.trans_to_tvb_cosim_updates =
                           Through("nest_to_tvb", cosim.nest_to_trans_cosim_updates)]
            /\ hist' = [hist EXCEPT !.calls = Append(@, "nest_to_tvb")]
       ELSE /\ sync' = [sync EXCEPT !.trans_to_tvb_cosim_updates = None]
            /\ UNCHANGED hist
    /\ bpc' = "simulate_tvb"
    /\ UNCHANGED <<args, tvb_app, nest_app, cosim, transformerVars>>

\* line 49; TVB reports the steps it ran
SimulateTvb ==
    /\ bpc = "simulate_tvb"
    /\ \E ran \in 0..(tvb_app.synchronization_n_step + 1) :
          /\ args.exact => ran = tvb_app.synchronization_n_step
          /\ tvb_app' = [tvb_app EXCEPT
                            !.input = TvbInput(sync.trans_to_tvb_cosim_updates,
                                               sync.trans_to_nest_cosim_updates),
                            !.n_tvb_steps_ran_since_last_synch = ran]
    /\ sync' = [sync EXCEPT !.tvb_to_trans_cosim_updates = TvbOut(hist.iters)]
    /\ hist' = [hist EXCEPT !.calls = Append(@, "tvb")]
    /\ bpc' = "simulate_nest"
    /\ UNCHANGED <<args, nest_app, cosim, transformerVars>>

\* lines 52-53 and the assignment of lines 94-96
SimulateNest ==
    /\ bpc = "simulate_nest"
    /\ nest_app' = [nest_app EXCEPT !.input = sync.trans_to_nest_cosim_updates]
    /\ cosim' = [cosim EXCEPT
                    !.tvb_to_trans_cosim_updates = sync.tvb_to_trans_cosim_updates,
                    !.nest_to_trans_cosim_updates = NestOut(hist.iters)]
    /\ hist' = [hist EXCEPT !.calls = Append(@, "nest")]
    /\ bpc' = "add_simulated"
    /\ UNCHANGED <<args, tvb_app, sync, transformerVars>>

\* lines 97-98
AddSimulated ==
    /\ bpc = "add_simulated"
    /\ cosim' = [cosim EXCEPT !.simulated_steps =
                    @ + tvb_app.n_tvb_steps_ran_since_last_synch]
    /\ bpc' = "sub_remaining"
    /\ UNCHANGED <<args, tvb_app, nest_app, sync, hist, transformerVars>>

\* line 99
SubRemaining ==
    /\ bpc = "sub_remaining"
    /\ cosim' = [cosim EXCEPT !.remaining_steps =
                    RemainingAfter(@, tvb_app.n_tvb_steps_ran_since_last_synch,
                                   tvb_app.synchronization_n_step)]
    /\ bpc' = "loop_head"
    /\ UNCHANGED <<args, tvb_app, nest_app, sync, hist, transformerVars>>

\* line 87, loop left, and lines 102-109
LeaveCosimulation ==
    /\ bpc = "loop_head"
    /\ ~(cosim.remaining_steps > 0)
    /\ tvb_app' = [tvb_app EXCEPT
                      !.simulation_length = cosim.simulated_steps * cosim.dt,
                      !.synchronization_n_step = cosim.synchronization_n_step,
                      !.synchronization_time = cosim.synchronization_time]
    /\ nest_app' = [nest_app EXCEPT !.synchronization_time = cosim.synchronization_time]
    /\ hist' = [hist EXCEPT !.events = Append(@, <<"cosim", "end">>)]
    /\ bpc' = "results"
    /\ UNCHANGED <<args, cosim, sync, transformerVars>>

\* line 139
ReturnTvbResults ==
    /\ bpc = "results"
    /\ hist' = [hist EXCEPT !.events = Append(@, <<"results", "tvb">>)]
    /\ bpc' = "final"
    /\ UNCHANGED <<args, tvb_app, nest_app, cosim, sync, transformerVars>>

\* lines 144-149
FinalApp ==
    /\ bpc = "final"
    /\ LET k == Cardinality(Events("final")) + 1
       IN  /\ hist' = [hist EXCEPT !.events = Append(@, <<"final", FinalOrder[k]>>)]
           /\ bpc' = IF k = Len(FinalOrder) THEN "returned" ELSE "final"
    /\ UNCHANGED <<args, tvb_app, nest_app, cosim, sync, transformerVars>>

BackendNext ==
    \/ InitApp
    \/ EnterCosimulation
    \/ SetSynchronization
    \/ TransformTvbToNest
    \/ TransformNestToTvb
    \/ SimulateTvb
    \/ SimulateNest
    \/ AddSimulated
    \/ SubRemaining
    \/ LeaveCosimulation
    \/ ReturnTvbResults
    \/ FinalApp

BackendSpec == BackendInit /\ [][BackendNext]_vars

\* backend() is one sequential program that keeps running
FairBackendSpec == BackendSpec /\ WF_vars(BackendNext)

InStep == {"transform_tvb_to_nest", "transform_nest_to_tvb",
           "simulate_tvb", "simulate_nest", "add_simulated"}
AfterLoop == {"results", "final", "returned"}
Called(app) == \E i \in 1..Len(hist.calls) : hist.calls[i] = app

\* C16: within one synchronization step no transformer is called after a
\* simulator; a transformer is called exactly when the update it would
\* transform is not None; after the step TVB has been run with the
\* NEST -> TVB transform of NEST's output of the step before and NEST with
\* the TVB -> NEST transform of TVB's output of the step before (of TVB's
\* initial coupling in the first step), and with None where there was
\* nothing to transform: in the first step the NEST -> TVB transformer is not
\* called and TVB is run with None.
C16_TransformThenSimulate ==
    /\ \A i, j \in 1..Len(hist.calls) :
          (i < j /\ hist.calls[i] \in {"tvb", "nest"}) =>
              hist.calls[j] \in {"tvb", "nest"}
    /\ bpc = "simulate_tvb" =>
          /\ Called("tvb_to_nest") <=> cosim.tvb_to_trans_cosim_updates.src # "None"
          /\ Called("nest_to_tvb") <=> cosim.nest_to_trans_cosim_updates.src # "None"
    /\ bpc = "add_simulated" =>
          /\ hist.calls[Len(hist.calls) - 1] = "tvb"
          /\ hist.calls[Len(hist.calls)] = "nest"
          /\ hist.iters = 1 =>
                /\ ~Called("nest_to_tvb")
                /\ tvb_app.input = [src |-> "None", k |-> 0, via |-> "-"]
                /\ nest_app.input =
                      IF tvb_app.tvb_init_cosim_coupling.src = "None"
                      THEN [src |-> "None", k |-> 0, via |-> "-"]
                      ELSE [src |-> "tvb", k |-> 0, via |-> "tvb_to_nest"]
          /\ hist.iters > 1 =>
                /\ tvb_app.input =
                      [src |-> "nest", k |-> hist.iters - 1, via |-> "nest_to_tvb"]
                /\ nest_app.input =
                      [src |-> "tvb", k |-> hist.iters - 1, via |-> "tvb_to_nest"]

C16_Witness ==
    /\ bpc = "add_simulated" /\ hist.iters = 2
    /\ hist.calls = <<"tvb_to_nest", "nest_to_tvb", "tvb", "nest">>
    /\ tvb_app.tvb_init_cosim_coupling = None

\* C17: when TVB runs exactly the steps it is asked for, the loop is left,
\* and it is left after ceil(T/n) steps with no step remaining and T steps
\* simulated; the steps asked for in a step are min(remaining, n) and never
\* more than remain.
C17_LoopTerminates ==
    /\ [](bpc \in InStep =>
            /\ tvb_app.synchronization_n_step <= cosim.remaining_steps
            /\ tvb_app.synchronization_n_step =
                  IF cosim.remaining_steps < args.n_step
                  THEN cosim.remaining_steps ELSE args.n_step)
    /\ []((args.exact /\ bpc \in AfterLoop) =>
            /\ cosim.remaining_steps = 0
            /\ cosim.simulated_steps = hist.total_steps
            /\ hist.iters = (hist.total_steps + args.n_step - 1) \div args.n_step)
    /\ (args.exact /\ bpc = "loop_head") ~> (bpc = "results")

C17_Witness ==
    /\ args.exact /\ bpc = "results"
    /\ hist.total_steps = 3 /\ args.n_step = 2 /\ hist.iters = 2
    /\ cosim.remaining_steps = 0

\* C18: at the loop head and after the loop the steps simulated and the
\* steps remaining add up to the initial number of steps, whatever TVB
\* reported.
C18_StepAccounting ==
    bpc \in {"loop_head"} \cup AfterLoop =>
        cosim.simulated_steps + cosim.remaining_steps = hist.total_steps

C18_Witness ==
    /\ ~args.exact /\ bpc = "loop_head" /\ hist.iters = 2
    /\ tvb_app.n_tvb_steps_ran_since_last_synch # tvb_app.synchronization_n_step
    /\ cosim.simulated_steps > 0

\* C19: after run_cosimulation TVB's synchronization_n_step and
\* synchronization_time and NEST's synchronization_time are the values TVB
\* was configured with; during a step TVB's and NEST's synchronization_time
\* both are dt * min(remaining, configured n_step).
C19_SynchronizationRestored ==
    /\ bpc \in AfterLoop =>
          /\ tvb_app.synchronization_n_step = args.n_step
          /\ tvb_app.synchronization_time = args.n_step * tvb_app.dt
          /\ nest_app.synchronization_time = args.n_step * tvb_app.dt
    /\ bpc \in InStep =>
          LET n == IF cosim.remaining_steps < args.n_step
                   THEN cosim.remaining_steps ELSE args.n_step
          IN  /\ tvb_app.synchronization_time = tvb_app.dt * n
              /\ nest_app.synchronization_time = tvb_app.dt * n

C19_Witness ==
    /\ bpc = "returned" /\ hist.iters = 2
    /\ hist.total_steps = 3 /\ args.n_step = 2 /\ tvb_app.dt = 2
    /\ args.nest_time = 0
    /\ nest_app.synchronization_time = 4

\* C20: the calls of backend() happen in this order: init of TVB, NEST, the
\* TVB -> NEST and the NEST -> TVB transformer, the co-simulation from start
\* to end, the TVB results, then final of the NEST -> TVB and the TVB -> NEST
\* transformer, of NEST and of TVB; when backend() returns every app has
\* been initialized once and finalized once.
C20_Lifecycle ==
    LET order == << <<"init", "tvb">>, <<"init", "nest">>,
                    <<"init", "tvb_to_nest">>, <<"init", "nest_to_tvb">>,
                    <<"cosim", "start">>, <<"cosim", "end">>, <<"results", "tvb">>,
                    <<"final", "nest_to_tvb">>, <<"final", "tvb_to_nest">>,
                    <<"final", "nest">>, <<"final", "tvb">> >>
    IN  /\ Len(hist.events) <= Len(order)
        /\ hist.events = SubSeq(order, 1, Len(hist.events))
        /\ bpc = "returned" => hist.events = order
        /\ bpc \in {"loop_head"} \cup InStep \cup {"sub_remaining"} => Len(hist.events) = 5

C20_Witness ==
    /\ bpc = "returned" /\ Len(hist.events) = 11
    /\ hist.events[11] = <<"final", "tvb">>
    /\ hist.iters >= 1

====
